---- MODULE Spec2Model ----
(***************************************************************************)
(* Model of src/finance_manager.py: the bank-statement line classifier,    *)
(* the record assembler of parse_ally_statement, the per-document loop of  *)
(* get_latest_transactions and the export / repair pass of main.           *)
(* Text is modelled as TLA+ strings; a character is a string of length 1.  *)
(***************************************************************************)
EXTENDS Integers, Sequences, FiniteSets, TLC

VARIABLES folder, csv, pc, doc_num, page_num, line_num, lines,
          current_account_number, transactions, current, all_dfs, text_in, result

vars == <<folder, csv, pc, doc_num, page_num, line_num, lines,
          current_account_number, transactions, current, all_dfs, text_in, result>>

\* Python's None, where the other values are records (a float, a dict) and
\* where they are strings.
None == [kind |-> "None"]
NoneStr == "<None>"

(***************************************************************************)
(* Characters and the str methods the program uses.                        *)
(***************************************************************************)
Char(s, i) == SubSeq(s, i, i)

\* Whitespace as str.strip(), str.split() and the regex class \s see it
\* (a line never holds "\n": lines come from text.split('\n')).
IsSpace(c) == c \in {" ", "\t"}

Digits == "0123456789"
Uppers == "ABCDEFGHIJKLMNOPQRSTUVWXYZ"
Lowers == "abcdefghijklmnopqrstuvwxyz"

IndexIn(c, alphabet) ==
    IF \E i \in 1..Len(alphabet) : Char(alphabet, i) = c
    THEN CHOOSE i \in 1..Len(alphabet) : Char(alphabet, i) = c
    ELSE 0

IsDigit(c) == IndexIn(c, Digits) > 0
AllDigits(s) == \A i \in 1..Len(s) : IsDigit(Char(s, i))

\* str.lower() on ASCII letters.
lower(s) ==
    LET lc(c) == IF IndexIn(c, Uppers) > 0 THEN Char(Lowers, IndexIn(c, Uppers)) ELSE c
        RECURSIVE go(_)
        go(i) == IF i > Len(s) THEN "" ELSE lc(Char(s, i)) \o go(i + 1)
    IN go(1)

\* int() of a string of ASCII digits.
ToNat(s) ==
    LET RECURSIVE go(_, _)
        go(i, acc) == IF i > Len(s) THEN acc
                      ELSE go(i + 1, acc * 10 + (IndexIn(Char(s, i), Digits) - 1))
    IN go(1, 0)

\* str.strip()
strip(s) ==
    LET idx == {i \in 1..Len(s) : ~IsSpace(Char(s, i))}
        lo == CHOOSE i \in idx : \A j \in idx : i <= j
        hi == CHOOSE i \in idx : \A j \in idx : i >= j
    IN IF idx = {} THEN "" ELSE SubSeq(s, lo, hi)

\* The k-th smallest element of a set of integers.
Kth(S, k) == CHOOSE i \in S : Cardinality({j \in S : j <= i}) = k

\* str.split() with no separator: the whitespace-delimited tokens, in order.
split(s) ==
    LET word(i) == ~IsSpace(Char(s, i))
        starts == {i \in 1..Len(s) : word(i) /\ (i = 1 \/ ~word(i - 1))}
        ends == {i \in 1..Len(s) : word(i) /\ (i = Len(s) \/ ~word(i + 1))}
    IN [k \in 1..Cardinality(starts) |-> SubSeq(s, Kth(starts, k), Kth(ends, k))]

\* sep.join(parts)
join(sep, parts) ==
    LET RECURSIVE go(_)
        go(i) == IF i > Len(parts) THEN ""
                 ELSE IF i = 1 THEN parts[1] \o go(2)
                 ELSE sep \o parts[i] \o go(i + 1)
    IN go(1)

StartsWithAt(s, i, pat) ==
    /\ i + Len(pat) - 1 <= Len(s)
    /\ SubSeq(s, i, i + Len(pat) - 1) = pat

\* pat in s   (pat non-empty)
Contains(s, pat) == \E i \in 1..Len(s) : StartsWithAt(s, i, pat)

\* s.replace(old, new): every non-overlapping occurrence, scanning left to right.
replace(s, old, new) ==
    LET occ(from) == {i \in from..Len(s) : StartsWithAt(s, i, old)}
        RECURSIVE go(_)
        go(i) == IF occ(i) = {} THEN SubSeq(s, i, Len(s))
                 ELSE LET at == CHOOSE a \in occ(i) : \A b \in occ(i) : a <= b
                      IN SubSeq(s, i, at - 1) \o new \o go(at + Len(old))
    IN go(1)

\* s.split(sep)[1]: the text between the first occurrence of sep and the next
\* one (or the end of s).  Only used where sep occurs in s.
SplitSecond(s, sep) ==
    LET occ(from) == {i \in from..Len(s) : StartsWithAt(s, i, sep)}
        first == CHOOSE i \in occ(1) : \A j \in occ(1) : i <= j
        rest == first + Len(sep)
        next == IF occ(rest) = {} THEN Len(s) + 1
                ELSE CHOOSE i \in occ(rest) : \A j \in occ(rest) : i <= j
    IN SubSeq(s, rest, next - 1)

(***************************************************************************)
(* datetime.strptime(token, "%m/%d/%Y") and float(token).                  *)
(***************************************************************************)
IsLeap(y) == (y % 4 = 0 /\ y % 100 # 0) \/ y % 400 = 0

DaysInMonth(m, y) ==
    IF m = 2 THEN (IF IsLeap(y) THEN 29 ELSE 28)
    ELSE IF m \in {4, 6, 9, 11} THEN 30 ELSE 31

\* The pieces of s between the occurrences of the one-character separator c.
Fields(s, c) ==
    LET seps == {i \in 1..Len(s) : Char(s, i) = c}
        n == Cardinality(seps)
        from(k) == IF k = 1 THEN 1 ELSE Kth(seps, k - 1) + 1
        to(k) == IF k = n + 1 THEN Len(s) ELSE Kth(seps, k) - 1
    IN [k \in 1..(n + 1) |-> SubSeq(s, from(k), to(k))]

\* The fields of a "%m/%d/%Y" token: month 1..12 and day 1..31 in one or two
\* digits, a four-digit year, and a day that exists in that month of that year.
DateFieldsOk(f) ==
       /\ Len(f) = 3
       /\ \A k \in 1..3 : Len(f[k]) > 0 /\ AllDigits(f[k])
       /\ Len(f[1]) <= 2 /\ ToNat(f[1]) \in 1..12
       /\ Len(f[2]) <= 2 /\ ToNat(f[2]) \in 1..31
       /\ Len(f[3]) = 4 /\ ToNat(f[3]) >= 1
       /\ ToNat(f[2]) <= DaysInMonth(ToNat(f[1]), ToNat(f[3]))

\* TRUE iff datetime.strptime(tok, "%m/%d/%Y") returns.
StrptimeOk(tok) == DateFieldsOk(Fields(tok, "/"))

Pow10(n) ==
    LET RECURSIVE go(_)
        go(k) == IF k = 0 THEN 1 ELSE 10 * go(k - 1)
    IN go(n)

\* A parsed float: kind "num" is the decimal n / 10^k with sign neg.
Num(neg, n, k) == [kind |-> "num", neg |-> neg, n |-> n, k |-> k]
Inf(neg) == [kind |-> "inf", neg |-> neg, n |-> 0, k |-> 0]
NaN(neg) == [kind |-> "nan", neg |-> neg, n |-> 0, k |-> 0]

\* n / 10^k with the trailing zeros of the fraction dropped ("4.50" = "4.5").
Normal(neg, n, k) ==
    LET RECURSIVE go(_, _)
        go(m, j) == IF j > 0 /\ m % 10 = 0 THEN go(m \div 10, j - 1) ELSE Num(neg, m, j)
    IN go(n, k)

\* Underscores are legal in a float literal only between two digits.
UnderscoresOk(s) ==
    \A i \in 1..Len(s) : Char(s, i) = "_" =>
        /\ i > 1 /\ IsDigit(Char(s, i - 1))
        /\ i < Len(s) /\ IsDigit(Char(s, i + 1))

\* float(s) for a token s without whitespace: None stands for ValueError.
\* [sign] (digits [. [digits]] | . digits) [(e|E) [sign] digits] | inf | infinity | nan
FloatOf(neg, ip, fp, ev) ==
    IF Len(fp) - ev >= 0 THEN Normal(neg, ToNat(ip \o fp), Len(fp) - ev)
    ELSE Num(neg, ToNat(ip \o fp) * Pow10(ev - Len(fp)), 0)

\* The digits of the mantissa and of the exponent, once split apart.
FloatExponent(neg, ip, fp, hasExp, eneg, edigits) ==
    IF ~(AllDigits(ip) /\ AllDigits(fp) /\ Len(ip) + Len(fp) > 0) THEN None
    ELSE IF ~hasExp THEN FloatOf(neg, ip, fp, 0)
    ELSE IF ~(Len(edigits) > 0 /\ AllDigits(edigits)) THEN None
    ELSE FloatOf(neg, ip, fp, IF eneg THEN 0 - ToNat(edigits) ELSE ToNat(edigits))

\* mf: the mantissa split at its points; expo: the text after the e.
FloatMantissa(neg, mf, hasExp, expo) ==
    IF Len(mf) > 2 THEN None
    ELSE FloatExponent(neg, mf[1], IF Len(mf) = 2 THEN mf[2] ELSE "", hasExp,
                       Len(expo) > 0 /\ Char(expo, 1) = "-",
                       IF Len(expo) > 0 /\ Char(expo, 1) \in {"+", "-"}
                       THEN SubSeq(expo, 2, Len(expo)) ELSE expo)

\* The position of the first e or E of body, Len(body) + 1 if it has none.
ExpPos(body) ==
    LET epos == {i \in 1..Len(body) : Char(body, i) \in {"e", "E"}}
    IN IF epos = {} THEN Len(body) + 1 ELSE CHOOSE i \in epos : \A j \in epos : i <= j

FloatSplit(neg, body, e) ==
    FloatMantissa(neg, Fields(SubSeq(body, 1, e - 1), "."), e <= Len(body),
                  SubSeq(body, e + 1, Len(body)))

\* body0: the literal without its sign; low: body0 in lower case.
FloatUnsigned(neg, body0, low) ==
    IF low \in {"inf", "infinity"} THEN Inf(neg)
    ELSE IF low = "nan" THEN NaN(neg)
    ELSE IF ~UnderscoresOk(body0) THEN None
    ELSE FloatSplit(neg, replace(body0, "_", ""), ExpPos(replace(body0, "_", "")))

FloatSigned(s0, signed) ==
    FloatUnsigned(signed /\ Char(s0, 1) = "-",
                  IF signed THEN SubSeq(s0, 2, Len(s0)) ELSE s0,
                  lower(IF signed THEN SubSeq(s0, 2, Len(s0)) ELSE s0))

float(s0) == FloatSigned(s0, Len(s0) > 0 /\ Char(s0, 1) \in {"+", "-"})

(***************************************************************************)
(* The line classifier and the amount extractor.                           *)
(***************************************************************************)
\* len(parts) < 5 in extract_amounts.
MinParts == 5

starts_with_valid_date(line) ==
    LET parts == split(strip(line))
    IN IF parts = <<>> THEN FALSE ELSE StrptimeOk(parts[1])

\* float(token.replace('$', '').replace(',', ''))
Amount(tok) == float(replace(replace(tok, "$", ""), ",", ""))

\* A ValueError of either conversion gives (None, None).
BothOrNone(credit, debit) ==
    IF credit = None \/ debit = None THEN <<None, None>> ELSE <<credit, debit>>

\* parts[-3] and parts[-2] of a line of at least `least` tokens.
AmountsOf(parts, least) ==
    IF Len(parts) < least THEN <<None, None>>
    ELSE BothOrNone(Amount(parts[Len(parts) - 2]), Amount(parts[Len(parts) - 1]))

\* extract_amounts with the length test one token short.
extract_amounts_four(line) == AmountsOf(split(strip(line)), MinParts - 1)

\* (credit, debit), or (None, None).
extract_amounts(line) == AmountsOf(split(strip(line)), MinParts)

\* credit is not None and debit is not None
BothPresent(cd) == cd[1] # None /\ cd[2] # None

is_valid_transaction(line) ==
    starts_with_valid_date(line) /\ BothPresent(extract_amounts(line))

\* lines[:15]
ScanWindow == 15

AccountLabel == "Account Number:"

\* extract_account_name_number scanning every line of the page.
extract_account_any_line(ls) ==
    LET top == 1..Len(ls)
        parts(i) == split(strip(SplitSecond(ls[i], AccountLabel)))
        hits == {i \in top : Contains(ls[i], AccountLabel) /\ parts(i) # <<>>}
    IN IF hits = {} THEN NoneStr
       ELSE parts(CHOOSE i \in hits : \A j \in hits : i <= j)[1]

extract_account_name_number(ls) ==
    LET top == 1..(IF Len(ls) < ScanWindow THEN Len(ls) ELSE ScanWindow)
        parts(i) == split(strip(SplitSecond(ls[i], AccountLabel)))
        hits == {i \in top : Contains(ls[i], AccountLabel) /\ parts(i) # <<>>}
    IN IF hits = {} THEN NoneStr
       ELSE parts(CHOOSE i \in hits : \A j \in hits : i <= j)[1]

\* re.sub(r'\s+', ' ', text).strip()
clean_description(text) ==
    LET spaces(from) == {i \in from..Len(text) : IsSpace(Char(text, i))}
        words(from) == {i \in from..Len(text) : ~IsSpace(Char(text, i))}
        RECURSIVE sub(_)
        \* text[i:] with every run of whitespace replaced by one space
        sub(i) == IF spaces(i) = {} THEN SubSeq(text, i, Len(text))
                  ELSE LET p == CHOOSE a \in spaces(i) : \A b \in spaces(i) : a <= b
                           q == IF words(p) = {} THEN Len(text) + 1
                                ELSE CHOOSE a \in words(p) : \A b \in words(p) : a <= b
                       IN SubSeq(text, i, p - 1) \o " " \o sub(q)
    IN strip(sub(1))

(***************************************************************************)
(* find_broken_phrases: the phrase-break detector.  A Counter is a         *)
(* function from the keys counted so far to their counts.                  *)
(***************************************************************************)
IsUpper(c) == IndexIn(c, Uppers) > 0
IsLower(c) == IndexIn(c, Lowers) > 0
AllUpper(w) == \A i \in 1..Len(w) : IsUpper(Char(w, i))

\* ^[A-Z][a-z]+$
Capitalized(w) ==
    /\ Len(w) >= 2
    /\ IsUpper(Char(w, 1))
    /\ \A i \in 2..Len(w) : IsLower(Char(w, i))

\* ^[A-Z]{1,2}$
ShortCap(w) == Len(w) \in {1, 2} /\ AllUpper(w)

\* ^[a-z]
StartsLower(w) == Len(w) >= 1 /\ IsLower(Char(w, 1))

\* The names of the rules, in the order of the `if` statements.
RULES == <<"single_cap + lowercase", "short_cap + ALLCAP", "short_cap + Capitalized",
           "digit + digit", "lowercase + lowercase", "word, + Capitalized",
           "abbreviation spacing">>

\* The condition of the r-th `if` on the words w1, w2.
RuleMatches(r, w1, w2) ==
    CASE r = 1 -> Len(w1) = 1 /\ AllUpper(w1) /\ StartsLower(w2)
      [] r = 2 -> ShortCap(w1) /\ Len(w2) >= 3 /\ AllUpper(w2)
      [] r = 3 -> ShortCap(w1) /\ Capitalized(w2)
      [] r = 4 -> Len(w1) = 1 /\ IsDigit(w1) /\ Len(w2) >= 1 /\ IsDigit(Char(w2, 1))
      [] r = 5 -> StartsLower(w1) /\ StartsLower(w2)
      [] r = 6 -> Len(w1) >= 1 /\ Char(w1, Len(w1)) = "," /\ Capitalized(w2)
      [] r = 7 -> Len(w1) = 1 /\ AllUpper(w1) /\ Len(w2) = 1 /\ AllUpper(w2)

\* Counter(), and counter[key] += 1
EmptyCounter == [k \in {} |-> 0]
Increment(counter, key) ==
    IF key \in DOMAIN counter THEN [counter EXCEPT ![key] = @ + 1]
    ELSE counter @@ (key :> 1)

\* The body of one `if`; the rule numbered `uncounted` leaves the phrase out.
Hit(cs, phrase, r, uncounted) ==
    [broken_phrases |-> IF r = uncounted THEN cs.broken_phrases
                        ELSE Increment(cs.broken_phrases, phrase),
     rules_hit |-> Increment(cs.rules_hit, RULES[r])]

\* The seven `if` statements on one pair of adjacent words, from the r-th on.
RECURSIVE ApplyRules(_, _, _, _, _)
ApplyRules(cs, w1, w2, r, uncounted) ==
    IF r > Len(RULES) THEN cs
    ELSE IF RuleMatches(r, w1, w2)
    THEN ApplyRules(Hit(cs, w1 \o " " \o w2, r, uncounted), w1, w2, r + 1, uncounted)
    ELSE ApplyRules(cs, w1, w2, r + 1, uncounted)

\* for i in range(len(words) - 1)
RECURSIVE ScanWords(_, _, _, _)
ScanWords(cs, words, i, uncounted) ==
    IF i > Len(words) - 1 THEN cs
    ELSE ScanWords(ApplyRules(cs, words[i], words[i + 1], 1, uncounted), words, i + 1, uncounted)

\* for desc in descriptions
RECURSIVE ScanDescriptions(_, _, _, _)
ScanDescriptions(cs, descriptions, d, uncounted) ==
    IF d > Len(descriptions) THEN cs
    ELSE ScanDescriptions(ScanWords(cs, split(descriptions[d]), 1, uncounted),
                          descriptions, d + 1, uncounted)

\* find_broken_phrases whose last rule counts the rule and not the phrase.
find_broken_phrases_uncounted(descriptions) ==
    ScanDescriptions([broken_phrases |-> EmptyCounter, rules_hit |-> EmptyCounter],
                     descriptions, 1, Len(RULES))

\* The Counter returned, and the rule hit counts printed before returning.
find_broken_phrases(descriptions) ==
    ScanDescriptions([broken_phrases |-> EmptyCounter, rules_hit |-> EmptyCounter],
                     descriptions, 1, 0)

(***************************************************************************)
(* The repair table, in declaration order, and its application.            *)
(***************************************************************************)
BROKEN_WORD_FIXES == <<
    <<"A ccount", "Account">>,
    <<"C OSTCO", "COSTCO">>,
    <<"U S", "US">>,
    <<"3 65", "365">>,
    <<"I nterest", "Interest">>,
    <<"a ccount", "account">>,
    <<"M INES", "MINES">>,
    <<"C hecking", "Checking">>,
    <<"C HIPOTLE", "CHIPOTLE">>,
    <<"C OCA", "COCA">>,
    <<"J P", "JP">>,
    <<"K ING", "KING">>,
    <<"H IGHWAY", "HIGHWAY">>,
    <<"H IGHLANDS", "HIGHLANDS">>,
    <<"B URGER", "BURGER">>,
    <<"T ACO", "TACO">>,
    <<"M AVERIK", "MAVERIK">>,
    <<"S POTIFY", "SPOTIFY">>,
    <<"S narfs", "Snarfs">>,
    <<"C ENTER", "CENTER">>,
    <<"P KWY", "PKWY">>,
    <<"A venue", "Avenue">>,
    <<"T hornton", "Thornton">>,
    <<"J IMMY", "JIMMY">>,
    <<"C HERRY", "CHERRY">>,
    <<"S T", "ST">>,
    <<"T ARGET", "TARGET">>,
    <<"C OLORADO", "COLORADO">>,
    <<"R AISING", "RAISING">>,
    <<"S HELL", "SHELL">>,
    <<"P eacock", "Peacock">>,
    <<"R OCKET", "ROCKET">>,
    <<"C IRCLE", "CIRCLE">>,
    <<"L EGO", "LEGO">>,
    <<"U NITED", "UNITED">>,
    <<"D D", "DD">>,
    <<"D icks", "Dicks">>,
    <<"S tore", "Store">>,
    <<"L akewood", "Lakewood">>,
    <<"H OLIDAY", "HOLIDAY">>,
    <<"S NARFS", "SNARFS">>,
    <<"P ROTON", "PROTON">>,
    <<"F LYING", "FLYING">>,
    <<"S avings", "Savings">>,
    <<"S TARBUCKS", "STARBUCKS">>,
    <<"M URPHY", "MURPHY">>,
    <<"O verdraft", "Overdraft">>,
    <<"S ubway", "Subway">>,
    <<"S AFEWAY", "SAFEWAY">>,
    <<"C OLFAX", "C OLFAX">>,
    <<"A ve.", "Ave.">>,
    <<"S treet", "Street">>,
    <<"G OLDEN", "GOLDEN">>,
    <<"M ICRO", "MICRO">>
>>

\* The table applied from its second rule on.
patch_skips_first_rule(text) ==
    LET items == BROKEN_WORD_FIXES
        RECURSIVE go(_, _)
        go(t, r) == IF r > Len(items) THEN t
                    ELSE IF ~Contains(t, items[r][1]) THEN go(t, r + 1)
                    ELSE go(replace(t, items[r][1], items[r][2]), r + 1)
    IN go(text, 2)

\* for broken, fixed in BROKEN_WORD_FIXES.items(): text = text.replace(broken, fixed)
\* (a rule whose key does not occur leaves the text as it is)
patch_known_broken_phrases(text) ==
    LET items == BROKEN_WORD_FIXES
        RECURSIVE go(_, _)
        go(t, r) == IF r > Len(items) THEN t
                    ELSE IF ~Contains(t, items[r][1]) THEN go(t, r + 1)
                    ELSE go(replace(t, items[r][1], items[r][2]), r + 1)
    IN go(text, 1)

(***************************************************************************)
(* parse_ally_statement: the record assembler.                             *)
(***************************************************************************)
\* page.extract_text() raising instead of returning (a corrupt page).
Raises == "<raises>"

Unknown == "Unknown"

\* `if not text`
NoText(text) == text = NoneStr \/ text = ""

\* `if current:` -- a record dict always has its six keys, so it is truthy.
Truthy(cur) == cur # None

\* if new_account_number and new_account_number != current_account_number: ...
TrackAccount(acct, ls) ==
    LET new_account_number == extract_account_name_number(ls)
    IN IF new_account_number # NoneStr /\ new_account_number # "" /\ new_account_number # acct
       THEN new_account_number ELSE acct

\* Flush with the record put in front of the output instead of at its end.
FlushInFront(txs, cur) == IF Truthy(cur) THEN <<cur>> \o txs ELSE txs

\* if current: transactions.append(current)
Flush(txs, cur) == IF Truthy(cur) THEN Append(txs, cur) ELSE txs

\* The six keys of the dict, from the tokens and the amounts of the line.
RecordOf(parts, amounts, acct, name) ==
    [Date |-> parts[1],
     Description |-> clean_description(join(" ", SubSeq(parts, 2, Len(parts) - 3))),
     Credit |-> amounts[1],
     Debit |-> amounts[2],
     Account_Number |-> acct,
     Source_File |-> name]

\* NewRecord that leaves the account number at the default.
NewRecordDefaultAccount(line, acct, name) ==
    RecordOf(split(strip(line)), extract_amounts(line), Unknown, name)

\* The dict built from a start line.
NewRecord(line, acct, name) ==
    RecordOf(split(strip(line)), extract_amounts(line), acct, name)

EndingBalance == "Ending Balance"

\* The footer pattern written with five digits.
FooterMatchFiveDigits(line) ==
    /\ Len(line) > 5
    /\ AllDigits(SubSeq(line, 1, 5))
    /\ Char(line, 6) = "/"

\* re.match(r'^\d{6}/', line)
FooterDigits == 6
FooterMatch(line) ==
    /\ Len(line) > FooterDigits
    /\ AllDigits(SubSeq(line, 1, FooterDigits))
    /\ Char(line, FooterDigits + 1) = "/"

\* Continuation without the "Ending Balance" test.
ContinuationKeepsMarker(cur, line) ==
    IF FooterMatch(line) THEN cur
    ELSE IF Len(strip(line)) > 1
         THEN [cur EXCEPT !.Description = clean_description(@ \o " " \o strip(line))]
    ELSE cur

\* Continuation that appends without the separating space.
ContinuationNoSpace(cur, line) ==
    IF Contains(line, EndingBalance) THEN cur
    ELSE IF FooterMatch(line) THEN cur
    ELSE IF Len(strip(line)) > 1
         THEN [cur EXCEPT !.Description = clean_description(@ \o strip(line))]
    ELSE cur

\* Continuation that appends without normalizing the description afterwards.
ContinuationNoClean(cur, line) ==
    IF Contains(line, EndingBalance) THEN cur
    ELSE IF FooterMatch(line) THEN cur
    ELSE IF Len(strip(line)) > 1
         THEN [cur EXCEPT !.Description = @ \o " " \o strip(line)]
    ELSE cur

\* Continuation that appends every line that is not blank.
ContinuationAppendsSingle(cur, line) ==
    IF Contains(line, EndingBalance) THEN cur
    ELSE IF FooterMatch(line) THEN cur
    ELSE IF Len(strip(line)) > 0
         THEN [cur EXCEPT !.Description = clean_description(@ \o " " \o strip(line))]
    ELSE cur

\* Continuation that drops the amounts of the record it appends to.
ContinuationClearsAmounts(cur, line) ==
    IF Contains(line, EndingBalance) THEN cur
    ELSE IF FooterMatch(line) THEN cur
    ELSE IF Len(strip(line)) > 1
         THEN [cur EXCEPT !.Description = clean_description(@ \o " " \o strip(line)),
                          !.Credit = None, !.Debit = None]
    ELSE cur

\* The `elif current:` branch: what a line that is no start line does to the
\* open record.
Continuation(cur, line) ==
    IF Contains(line, EndingBalance) THEN cur
    ELSE IF FooterMatch(line) THEN cur
    ELSE IF Len(strip(line)) > 1
         THEN [cur EXCEPT !.Description = clean_description(@ \o " " \o strip(line))]
    ELSE cur

Doc == folder[doc_num]
Line == lines[line_num + 1]

\* OpenPdf with the account number kept from the previous document.
OpenPdfKeepsAccount ==
    /\ pc = "glob"
    /\ doc_num < Len(folder)
    /\ doc_num' = doc_num + 1
    /\ transactions' = <<>>
    /\ current' = None
    /\ lines' = <<>>
    /\ page_num' = 0
    /\ line_num' = 0
    /\ pc' = "pages"
    /\ UNCHANGED <<folder, csv, all_dfs, text_in, result, current_account_number>>

\* for pdf_path in statement_folder.glob("*.pdf"): try: parse_ally_statement(pdf_path)
OpenPdf ==
    /\ pc = "glob"
    /\ doc_num < Len(folder)
    /\ doc_num' = doc_num + 1
    /\ current_account_number' = Unknown
    /\ transactions' = <<>>
    /\ current' = None
    /\ lines' = <<>>
    /\ page_num' = 0
    /\ line_num' = 0
    /\ pc' = "pages"
    /\ UNCHANGED <<folder, csv, all_dfs, text_in, result>>

\* SkipPage that flushes the record `current` still names before going on.
SkipPageFlushes ==
    /\ pc = "pages"
    /\ page_num < Len(Doc.pages)
    /\ NoText(Doc.pages[page_num + 1])
    /\ transactions' = Flush(transactions, current)
    /\ page_num' = page_num + 1
    /\ UNCHANGED <<folder, csv, pc, doc_num, line_num, lines, current_account_number,
                   current, all_dfs, text_in, result>>

\* A page whose text is absent or empty: `continue`.
SkipPage ==
    /\ pc = "pages"
    /\ page_num < Len(Doc.pages)
    /\ NoText(Doc.pages[page_num + 1])
    /\ page_num' = page_num + 1
    /\ UNCHANGED <<folder, csv, pc, doc_num, line_num, lines, current_account_number,
                   transactions, current, all_dfs, text_in, result>>

\* StartPage without `current = None`: the record of the previous page stays open.
StartPageKeepsOpen ==
    /\ pc = "pages"
    /\ page_num < Len(Doc.pages)
    /\ LET text == Doc.pages[page_num + 1]
       IN /\ text # Raises
          /\ ~NoText(text)
          /\ lines' = Fields(text, "\n")
          /\ current_account_number' = TrackAccount(current_account_number, Fields(text, "\n"))
    /\ page_num' = page_num + 1
    /\ line_num' = 0
    /\ pc' = "lines"
    /\ UNCHANGED <<folder, csv, doc_num, transactions, all_dfs, text_in, result, current>>

\* A page with text: reset the open record, split the lines, track the account.
StartPage ==
    /\ pc = "pages"
    /\ page_num < Len(Doc.pages)
    /\ LET text == Doc.pages[page_num + 1]
       IN /\ text # Raises
          /\ ~NoText(text)
          /\ current' = None
          /\ lines' = Fields(text, "\n")
          /\ current_account_number' = TrackAccount(current_account_number, Fields(text, "\n"))
    /\ page_num' = page_num + 1
    /\ line_num' = 0
    /\ pc' = "lines"
    /\ UNCHANGED <<folder, csv, doc_num, transactions, all_dfs, text_in, result>>

\* One iteration of `for line in lines`.
ProcessLine ==
    /\ pc = "lines"
    /\ line_num < Len(lines)
    /\ IF is_valid_transaction(Line)
       THEN /\ transactions' = Flush(transactions, current)
            /\ current' = NewRecord(Line, current_account_number, Doc.name)
       ELSE IF Truthy(current)
       THEN /\ current' = Continuation(current, Line)
            /\ UNCHANGED transactions
       ELSE UNCHANGED <<current, transactions>>
    /\ line_num' = line_num + 1
    /\ UNCHANGED <<folder, csv, pc, doc_num, page_num, lines, current_account_number,
                   all_dfs, text_in, result>>

\* EndPage without the flush of the record still open.
EndPageNoFlush ==
    /\ pc = "lines"
    /\ line_num = Len(lines)
    /\ pc' = "pages"
    /\ UNCHANGED <<folder, csv, doc_num, page_num, line_num, lines, current_account_number,
                   transactions, current, all_dfs, text_in, result>>

\* The lines of the page are exhausted: `if current: transactions.append(current)`.
EndPage ==
    /\ pc = "lines"
    /\ line_num = Len(lines)
    /\ transactions' = Flush(transactions, current)
    /\ pc' = "pages"
    /\ UNCHANGED <<folder, csv, doc_num, page_num, line_num, lines, current_account_number,
                   current, all_dfs, text_in, result>>

\* PageRaises with the records assembled so far returned as the frame.
PageRaisesKeepsRecords ==
    /\ pc = "pages"
    /\ page_num < Len(Doc.pages)
    /\ Doc.pages[page_num + 1] = Raises
    /\ all_dfs' = IF transactions # <<>> THEN Append(all_dfs, transactions) ELSE all_dfs
    /\ pc' = "glob"
    /\ UNCHANGED <<folder, csv, doc_num, page_num, line_num, lines, current_account_number,
                   transactions, current, text_in, result>>

\* extract_text() raises: the exception leaves parse_ally_statement and is
\* caught by the `except Exception` of the document loop.
PageRaises ==
    /\ pc = "pages"
    /\ page_num < Len(Doc.pages)
    /\ Doc.pages[page_num + 1] = Raises
    /\ pc' = "glob"
    /\ UNCHANGED <<folder, csv, doc_num, page_num, line_num, lines, current_account_number,
                   transactions, current, all_dfs, text_in, result>>

\* return pd.DataFrame(transactions); if not df.empty: all_dfs.append(df)
ReturnFrame ==
    /\ pc = "pages"
    /\ page_num = Len(Doc.pages)
    /\ all_dfs' = IF transactions # <<>> THEN Append(all_dfs, transactions) ELSE all_dfs
    /\ pc' = "glob"
    /\ UNCHANGED <<folder, csv, doc_num, page_num, line_num, lines, current_account_number,
                   transactions, current, text_in, result>>

(***************************************************************************)
(* get_latest_transactions: the export, and main's repair pass over the    *)
(* file all_transactions.csv.                                              *)
(***************************************************************************)
\* all_transactions.csv does not exist.
NoFile == <<None>>

\* Printable ASCII characters in code-point order (str comparison); quotes,
\* backslash and backquote do not occur in the modelled texts.
Ascii == " !#$%&()*+,-./0123456789:;<=>?@ABCDEFGHIJKLMNOPQRSTUVWXYZ[]^_abcdefghijklmnopqrstuvwxyz{|}~"

StrLess(a, b) ==
    LET RECURSIVE go(_)
        go(i) == IF i > Len(b) THEN FALSE
                 ELSE IF i > Len(a) THEN TRUE
                 ELSE IF Char(a, i) = Char(b, i) THEN go(i + 1)
                 ELSE IndexIn(Char(a, i), Ascii) < IndexIn(Char(b, i), Ascii)
    IN go(1)

\* str(n) for n >= 0, left-padded with zeros to width w.
NatToStr(n, w) ==
    LET RECURSIVE go(_, _)
        go(m, k) == IF m = 0 /\ k <= 0 THEN ""
                    ELSE go(m \div 10, k - 1) \o Char(Digits, (m % 10) + 1)
    IN IF n = 0 /\ w <= 0 THEN "0" ELSE go(n, w)

\* pd.to_datetime of a "%m/%d/%Y" token, as to_csv writes it: YYYY-MM-DD.
to_datetime(tok) ==
    LET f == Fields(tok, "/")
    IN NatToStr(ToNat(f[3]), 4) \o "-" \o NatToStr(ToNat(f[1]), 2) \o "-" \o NatToStr(ToNat(f[2]), 2)

\* pd.concat(all_dfs, ignore_index=True)
concat(dfs) ==
    LET RECURSIVE go(_)
        go(i) == IF i > Len(dfs) THEN <<>> ELSE dfs[i] \o go(i + 1)
    IN go(1)

\* Row order of sort_values(by=['Date', 'Account_Number']).
RowLess(r1, r2) ==
    \/ StrLess(r1.Date, r2.Date)
    \/ r1.Date = r2.Date /\ StrLess(r1.Account_Number, r2.Account_Number)

\* sort_values on two keys is a stable sort: equal keys keep their order.
sort_values(df) ==
    LET Insert(sorted, r) ==
            LET later == {i \in 1..Len(sorted) : RowLess(r, sorted[i])}
                at == IF later = {} THEN Len(sorted) + 1
                      ELSE CHOOSE i \in later : \A j \in later : i <= j
            IN SubSeq(sorted, 1, at - 1) \o <<r>> \o SubSeq(sorted, at, Len(sorted))
        RECURSIVE go(_, _)
        go(i, acc) == IF i > Len(df) THEN acc ELSE go(i + 1, Insert(acc, df[i]))
    IN go(1, <<>>)

\* The table to_csv writes: dates converted, rows sorted.
ExportTable(dfs) ==
    LET full_df == concat(dfs)
    IN sort_values([i \in 1..Len(full_df) |->
                       [full_df[i] EXCEPT !.Date = to_datetime(@)]])

\* if all_dfs: ... full_df.to_csv(output_file) else: print("No transactions found")
Export ==
    /\ pc = "glob"
    /\ doc_num = Len(folder)
    /\ csv' = IF all_dfs # <<>> THEN ExportTable(all_dfs) ELSE csv
    /\ pc' = "main"
    /\ UNCHANGED <<folder, doc_num, page_num, line_num, lines, current_account_number,
                   transactions, current, all_dfs, text_in, result>>

\* The strings pd.read_csv reads as a missing value (NaN).
NaStrings == {"", "#N/A", "#N/A N/A", "#NA", "-1.#IND", "-1.#QNAN", "-NaN", "-nan",
              "1.#IND", "1.#QNAN", "<NA>", "N/A", "NA", "NULL", "NaN", "None", "n/a",
              "nan", "null"}

\* read_csv turns a column whose every cell is a number into a numeric column.
CsvNumber(s) == s \in NaStrings \/ (float(s) # None /\ ~Contains(s, "_"))

\* df["Description"].apply(patch_known_broken_phrases) calls .replace on every
\* cell: it raises AttributeError on a cell that read_csv did not leave a str.
PatchRaises(table) ==
    \/ \E i \in 1..Len(table) : table[i].Description \in NaStrings
    \/ \A i \in 1..Len(table) : CsvNumber(table[i].Description)

\* The Account_Number column after read_csv and to_csv: a column of integers
\* loses its leading zeros, a missing value is written back empty.
RereadAccount(table, a) ==
    IF a \in NaStrings THEN ""
    ELSE IF \A i \in 1..Len(table) : AllDigits(table[i].Account_Number)
    THEN NatToStr(ToNat(a), 0)
    ELSE a

\* main, after get_latest_transactions(): read the file, repair, write it back.
MainRepair ==
    /\ pc = "main"
    /\ IF csv = NoFile \/ PatchRaises(csv)
       THEN /\ pc' = "crashed"
            /\ UNCHANGED csv
       ELSE /\ pc' = "done"
            /\ csv' = [i \in 1..Len(csv) |->
                          [csv[i] EXCEPT !.Description = patch_known_broken_phrases(@),
                                         !.Account_Number = RereadAccount(csv, @)]]
    /\ UNCHANGED <<folder, doc_num, page_num, line_num, lines, current_account_number,
                   transactions, current, all_dfs, text_in, result>>

(***************************************************************************)
(* The inputs: the PDFs of bank_statements/ in glob order, each a sequence *)
(* of page texts, and the all_transactions.csv an earlier run left behind. *)
(***************************************************************************)
MaxLines == 3
MaxPages == 2
MaxDocs == 2

SeqsUpTo(S, n) == UNION {[1..k -> S] : k \in 0..n}

StartA == "01/15/2024 COFFEE SHOP $4.50 $0.00 $1,200.00"
StartB == "1/5/2024 D D D -$5 2.5 $9"
AccountLine == "Account Number: 1234"

\* A dated line of four tokens, set in columns: runs of blanks and a tab.
FourTokens == "01/15/2024 \t$4.50  $0.00 $1,200.00"

LinePool == {StartA, StartB, "PURCHASE", "Ending Balance $1,200.00", "123456/02", "X",
             " 123456/02 ", FourTokens, " "}

\* Every page of one to n lines of the pool.
GeneratedPages(n) == {join("\n", ls) : ls \in SeqsUpTo(LinePool, n) \ {<<>>}}

PagePool == {AccountLine \o "\n" \o StartA \o "\nPURCHASE",
             StartB,
             "Statement\nAccount Number: 5678 Savings\n" \o StartB \o "\n \n" \o FourTokens
                 \o "\n" \o StartA,
             "PURCHASE\ncontinued text",
             AccountLine,
             NoneStr, "", Raises}

DocPool == {<<AccountLine \o "\n" \o StartA \o "\nPURCHASE", StartB>>,
            <<StartB>>,
            <<>>,
            <<NoneStr>>,
            <<"Account Number: 5678\n" \o StartA, Raises>>,
            <<"no transactions here">>}

FileName(i) == "statement" \o NatToStr(i, 0) \o ".pdf"

Pdf(i, pages) == [name |-> FileName(i), pages |-> pages]

\* One document of one generated page.
GeneratedFolders(lns) == {<<Pdf(1, <<p>>)>> : p \in GeneratedPages(lns)}

\* One document of up to `pages` pages of the page pool, and up to `docs`
\* documents of the document pool.
PooledFolders(pages, docs) ==
    {<<Pdf(1, ps)>> : ps \in SeqsUpTo(PagePool, pages)}
    \cup {[i \in 1..Len(ds) |-> Pdf(i, ds[i])] : ds \in SeqsUpTo(DocPool, docs)}

\* What an earlier run of main left in all_transactions.csv.
OldCsv == <<[Date |-> "2023-12-01", Description |-> "DD D", Credit |-> Num(FALSE, 1, 0),
             Debit |-> Num(FALSE, 0, 0), Account_Number |-> "1234",
             Source_File |-> "old.pdf"]>>

Init ==
    /\ \/ folder \in GeneratedFolders(MaxLines) /\ csv = NoFile
       \/ folder \in PooledFolders(MaxPages, MaxDocs) /\ csv \in {NoFile, OldCsv}
    /\ pc = "glob"
    /\ doc_num = 0
    /\ page_num = 0
    /\ line_num = 0
    /\ lines = <<>>
    /\ current_account_number = Unknown
    /\ transactions = <<>>
    /\ current = None
    /\ all_dfs = <<>>
    /\ text_in = ""
    /\ result = <<>>

Next ==
    \/ OpenPdf
    \/ SkipPage
    \/ StartPage
    \/ ProcessLine
    \/ EndPage
    \/ PageRaises
    \/ ReturnFrame
    \/ Export
    \/ MainRepair

Spec == Init /\ [][Next]_vars

(***************************************************************************)
(* The classifier on its own: one line in, its classification out.         *)
(***************************************************************************)
MaxTokens == 5

TokenPool == {"01/15/2024", "02/30/2024", "SHOP", "-$1,200.50", "nan"}

\* Lines of up to n tokens, single-spaced or padded with whitespace.
ClassifyLines(n) ==
    UNION {{join(" ", ts), " " \o join("  ", ts) \o "\t"} : ts \in SeqsUpTo(TokenPool, n)}

Idle ==
    /\ folder = <<>>
    /\ csv = NoFile
    /\ doc_num = 0
    /\ page_num = 0
    /\ line_num = 0
    /\ lines = <<>>
    /\ current_account_number = Unknown
    /\ transactions = <<>>
    /\ current = None
    /\ all_dfs = <<>>

InitClassify ==
    /\ Idle
    /\ text_in \in ClassifyLines(MaxTokens)
    /\ pc = "classify"
    /\ result = <<>>

\* is_valid_transaction(line) and extract_amounts(line) applied to the line.
Classify ==
    /\ pc = "classify"
    /\ result' = [start |-> is_valid_transaction(text_in), amounts |-> extract_amounts(text_in)]
    /\ pc' = "classified"
    /\ UNCHANGED <<folder, csv, doc_num, page_num, line_num, lines, current_account_number,
                   transactions, current, all_dfs, text_in>>

NextClassify == Classify

SpecClassify == InitClassify /\ [][NextClassify]_vars

(***************************************************************************)
(* The repair table on its own: a description repaired, and repaired again *)
(* (main repairs whatever all_transactions.csv holds, on every run).       *)
(***************************************************************************)
MaxWords == 3

PatchWords == {"D", "U", "S", "T", "A", "ccount", "Summary"}

\* Every table key followed by an ordinary word.
KeyTexts == {BROKEN_WORD_FIXES[r][1] \o " Summary" : r \in 1..Len(BROKEN_WORD_FIXES)}

PatchTexts(n) == KeyTexts \cup {join(" ", ws) : ws \in SeqsUpTo(PatchWords, n)}

InitPatch ==
    /\ Idle
    /\ text_in \in PatchTexts(MaxWords)
    /\ pc = "patch"
    /\ result = <<>>

\* df["Description"].apply(patch_known_broken_phrases), on the text or on the
\* result of the previous pass.
Patch ==
    /\ pc = "patch"
    /\ result' = Append(result, patch_known_broken_phrases(
                                    IF result = <<>> THEN text_in ELSE result[Len(result)]))
    /\ pc' = IF Len(result) = 1 THEN "patched" ELSE "patch"
    /\ UNCHANGED <<folder, csv, doc_num, page_num, line_num, lines, current_account_number,
                   transactions, current, all_dfs, text_in>>

NextPatch == Patch

SpecPatch == InitPatch /\ [][NextPatch]_vars

(***************************************************************************)
(* The account scan on its own: the lines of one page in, the number found *)
(* and the tracked number out.                                             *)
(***************************************************************************)
MaxScan == 17

Filler == "Statement period 01/01/2024 - 01/31/2024"

LabelLines == {"Account Number: 1234",
               "Account Number: 5678 Savings",
               "Account Number:",
               "Name: J DOE Account Number:\t9012",
               "Account Number: 1234 Account Number: 5678",
               "Account Number: Account Number: 1234"}

\* A page of len filler lines with line v at position p and, if q > 0, the
\* line "Account Number: 5678 Savings" at position q.
ScanPage(len, p, v, q) ==
    [i \in 1..len |-> IF i = p THEN v
                      ELSE IF i = q THEN "Account Number: 5678 Savings" ELSE Filler]

\* Pages of up to n lines holding no, one or two lines with the label.
ScanPages(n) ==
    {ScanPage(len, 0, Filler, 0) : len \in 0..n}
    \cup UNION {{ScanPage(len, p, v, q) : v \in LabelLines, q \in {0} \cup ((p + 1)..len)} :
                    len \in 1..n, p \in 1..n}

InitScan ==
    /\ folder = <<>>
    /\ csv = NoFile
    /\ doc_num = 0
    /\ page_num = 0
    /\ line_num = 0
    /\ lines \in ScanPages(MaxScan)
    /\ current_account_number \in {Unknown, "1234"}
    /\ transactions = <<>>
    /\ current = None
    /\ all_dfs = <<>>
    /\ text_in = ""
    /\ result = ""
    /\ pc = "scan"

\* new_account_number = extract_account_name_number(lines), and the update of
\* the tracked number that follows it.
ScanAccount ==
    /\ pc = "scan"
    /\ result' = extract_account_name_number(lines)
    /\ current_account_number' = TrackAccount(current_account_number, lines)
    /\ pc' = "scanned"
    /\ UNCHANGED <<folder, csv, doc_num, page_num, line_num, lines, transactions, current,
                   all_dfs, text_in>>

NextScan == ScanAccount

SpecScan == InitScan /\ [][NextScan]_vars

(***************************************************************************)
(* The phrase-break detector on its own: a list of descriptions in, the    *)
(* two Counters out.                                                       *)
(***************************************************************************)
MaxPhraseWords == 3

PhraseWords == {"U", "S", "ccount", "Store", "TARGET", "3", "to,", "AB"}

\* Lists of one description of up to n words, alone or followed by a second
\* description.
PhraseInputs(n) ==
    UNION {{<<join(" ", ws)>>, <<join(" ", ws), "U S Store">>} : ws \in SeqsUpTo(PhraseWords, n)}

InitPhrases ==
    /\ Idle
    /\ text_in \in PhraseInputs(MaxPhraseWords)
    /\ pc = "find"
    /\ result = <<>>

\* find_broken_phrases(descriptions)
FindPhrases ==
    /\ pc = "find"
    /\ result' = find_broken_phrases(text_in)
    /\ pc' = "found"
    /\ UNCHANGED <<folder, csv, doc_num, page_num, line_num, lines, current_account_number,
                   transactions, current, all_dfs, text_in>>

NextPhrases == FindPhrases

SpecPhrases == InitPhrases /\ [][NextPhrases]_vars

(***************************************************************************)
(* What the pages read so far say, computed from the input alone.          *)
(***************************************************************************)
\* Every page text of the inputs.
KnownPages ==
    GeneratedPages(MaxLines) \cup PagePool \cup UNION {{d[i] : i \in 1..Len(d)} : d \in DocPool}

\* A line starting with six digits and a slash.
FooterLine(L) ==
    /\ Len(L) >= 7
    /\ \A i \in 1..6 : IsDigit(Char(L, i))
    /\ Char(L, 7) = "/"

\* A continuation line that neither exclusion matches.
NotExcluded(L) ==
    /\ ~is_valid_transaction(L)
    /\ ~Contains(L, "Ending Balance")
    /\ ~FooterLine(L)

NonSpaceCount(L) == Cardinality({i \in 1..Len(L) : ~IsSpace(Char(L, i))})

Appended(L) == NotExcluded(L) /\ NonSpaceCount(L) > 1

\* The description a start line contributes: the tokens between the first
\* token and the final three, joined and normalized.
StartDescription(line) ==
    clean_description(join(" ", SubSeq(split(line), 2, Len(split(line)) - 3)))

\* The description of the record opened at line `at` of a page with lines ls,
\* once the page has been read up to the next start line or its end.
FinalDescription(ls, at) ==
    LET nexts == {i \in (at + 1)..Len(ls) : is_valid_transaction(ls[i])}
        last == IF nexts = {} THEN Len(ls) ELSE Kth(nexts, 1) - 1
    IN clean_description(
           join(" ", <<StartDescription(ls[at])>> \o SelectSeq(SubSeq(ls, at + 1, last), Appended)))

\* What a page text says, worked out once per page: its lines, the account
\* number its top lines give, the positions of its start lines and, for each
\* start line, the final description of its record.
FactsOf(ls) ==
    [lines |-> ls,
     found |-> extract_account_name_number(ls),
     starts |-> {i \in 1..Len(ls) : is_valid_transaction(ls[i])},
     final |-> [i \in 1..Len(ls) |->
                   IF is_valid_transaction(ls[i]) THEN FinalDescription(ls, i) ELSE ""]]

PageFacts == [p \in KnownPages |-> FactsOf(Fields(p, "\n"))]

\* The account number in force after page text p, coming from acct.
AccountAfter(acct, p) ==
    IF PageFacts[p].found = NoneStr THEN acct ELSE PageFacts[p].found

\* The start lines among the first `upto` lines of page text p, in order, each
\* with its position, its page and the account it was read under.
StartsIn(p, upto, page, acct) ==
    LET at == {i \in PageFacts[p].starts : i <= upto}
        rec(i) == [line |-> PageFacts[p].lines[i], at |-> i, page |-> page, acct |-> acct,
                   final |-> PageFacts[p].final[i]]
    IN [k \in 1..Cardinality(at) |-> rec(Kth(at, k))]

\* The walk over pages 1..upto of a document: the start lines met, in reading
\* order, and the account number in force at the end.
Walk(pages, upto) ==
    LET RECURSIVE go(_, _, _)
        go(i, acct, found) ==
            IF i > upto THEN [starts |-> found, acct |-> acct]
            ELSE IF NoText(pages[i]) THEN go(i + 1, acct, found)
            ELSE LET a == AccountAfter(acct, pages[i])
                 IN go(i + 1, a,
                       found \o StartsIn(pages[i], Len(PageFacts[pages[i]].lines), i, a))
    IN go(1, Unknown, <<>>)

\* The start lines the current parse has consumed so far.
Seen ==
    IF doc_num = 0 THEN <<>>
    ELSE IF pc = "lines"
    THEN Walk(Doc.pages, page_num - 1).starts
         \o StartsIn(Doc.pages[page_num], line_num, page_num, current_account_number)
    ELSE Walk(Doc.pages, page_num).starts

\* Is a record open, i.e. created on this page and not flushed yet?
Open == pc = "lines" /\ Truthy(current)

(***************************************************************************)
(* C1: every record opened by a start line is appended to the output       *)
(* exactly once, at the next start line of its page or at the end of the   *)
(* page: the flushed records plus the open one are as many as the start    *)
(* lines read, and between pages and at the end of the document the output *)
(* holds one record per start line of the pages that have text.            *)
(***************************************************************************)
C1_EveryRecordFlushedOnce ==
    LET seen == Seen
    IN /\ Len(transactions) + (IF Open THEN 1 ELSE 0) = Len(seen)
       /\ pc = "lines" /\ ~Truthy(current) => Len(seen) = 0 \/ seen[Len(seen)].page < page_num
       /\ pc # "lines" /\ doc_num > 0 =>
              Len(transactions) = Len(Walk(Doc.pages, page_num).starts)

\* A page with two start lines has been read to its end: the first record was
\* flushed by the second start line, the second by the end of the page.
C1_Witness ==
    /\ pc = "pages"
    /\ Len(transactions) >= 2
    /\ transactions[Len(transactions)] = current
    /\ Seen[Len(Seen) - 1].page = page_num

(***************************************************************************)
(* C2: the output is in reading order: the k-th record of the output was   *)
(* made from the k-th start line of the document (page order, then line    *)
(* order within the page).                                                 *)
(***************************************************************************)
MadeFrom(rec, line) ==
    /\ rec.Date = split(line)[1]
    /\ <<rec.Credit, rec.Debit>> = extract_amounts(line)

C2_ReadingOrder ==
    LET seen == Seen
    IN /\ Len(transactions) <= Len(seen)
       /\ \A k \in 1..Len(transactions) : MadeFrom(transactions[k], seen[k].line)

\* Two records from different start lines, the second from a later page.
C2_Witness ==
    /\ pc = "glob"
    /\ Len(transactions) >= 2
    /\ Seen[1].line # Seen[2].line
    /\ Seen[1].page < Seen[2].page

(***************************************************************************)
(* C3 (as amended): on a page whose lines are a start line, a continuation *)
(* line L that is not excluded AND HAS MORE THAN ONE NON-SPACE CHARACTER,  *)
(* then a new start line, the first record is in the output when the       *)
(* second is created, with description normalize(start description + " "   *)
(* + L); in general a flushed description is the normalized space-joined   *)
(* concatenation of the start-line description and the appended            *)
(* continuation lines, in line order.                                      *)
(***************************************************************************)
\* The three lines just read are: start line, continuation L, start line.
StartContStart(Cont(_)) ==
    /\ pc = "lines"
    /\ line_num >= 3
    /\ is_valid_transaction(lines[line_num - 2])
    /\ Cont(lines[line_num - 1])
    /\ is_valid_transaction(lines[line_num])

C3_DescriptionJoined ==
    LET seen == Seen
    IN /\ StartContStart(Appended) =>
              /\ Len(transactions) >= 1
              /\ transactions[Len(transactions)].Description =
                     clean_description(StartDescription(lines[line_num - 2]) \o " " \o lines[line_num - 1])
              /\ current.Description = StartDescription(lines[line_num])
       /\ \A k \in 1..Len(transactions) :
              transactions[k].Description = seen[k].final

C3_Witness ==
    /\ StartContStart(Appended)
    /\ transactions[Len(transactions)].Description = "COFFEE SHOP PURCHASE"

\* C3 as stated: any continuation line that is not excluded is appended.
C3_Original ==
    StartContStart(NotExcluded) =>
        /\ Len(transactions) >= 1
        /\ transactions[Len(transactions)].Description =
               clean_description(StartDescription(lines[line_num - 2]) \o " " \o lines[line_num - 1])

(***************************************************************************)
(* C4: the tracked account number is the one of the most recent page of    *)
(* THIS document that has an "Account Number:" line, and "Unknown" while   *)
(* this document has shown none: a page without the line keeps the value,  *)
(* and a new document starts from "Unknown" whatever the previous one      *)
(* ended with.                                                             *)
(***************************************************************************)
C4_StickyWithinDocumentResetBetween ==
    doc_num > 0 => current_account_number = Walk(Doc.pages, page_num).acct

\* The second document is on its second page, which has no account line and
\* keeps the number of its first page, while the first document ended with
\* another number.
C4_Witness ==
    /\ doc_num = 2
    /\ page_num = 2
    /\ pc = "lines"
    /\ extract_account_name_number(lines) = NoneStr
    /\ Len(folder[1].pages) >= 1
    /\ current_account_number \notin {Unknown, Walk(folder[1].pages, 1).acct}
    /\ Walk(folder[1].pages, 1).acct # Unknown

(***************************************************************************)
(* C5: the Account_Number of every record, flushed or open, is the account *)
(* number that was in force on the page of its start line, whatever the    *)
(* tracker has become since.                                               *)
(***************************************************************************)
C5_AccountAsOfOpening ==
    LET seen == Seen
    IN /\ Len(transactions) <= Len(seen)
       /\ \A k \in 1..Len(transactions) : transactions[k].Account_Number = seen[k].acct
       /\ Open => current.Account_Number = seen[Len(seen)].acct

\* A record flushed on an earlier page keeps its number after the tracker moved on.
C5_Witness ==
    /\ Len(transactions) >= 1
    /\ transactions[1].Account_Number # current_account_number
    /\ transactions[1].Account_Number # Unknown

(***************************************************************************)
(* C7: while a record is open, reading a continuation line that carries    *)
(* the "Ending Balance" marker changes neither the open record nor the     *)
(* output.                                                                 *)
(***************************************************************************)
ReadsContinuation(Kind(_)) ==
    /\ pc = "lines"
    /\ line_num < Len(lines)
    /\ Truthy(current)
    /\ ~is_valid_transaction(Line)
    /\ Kind(Line)

HasMarker(L) == Contains(L, "Ending Balance")

C7_EndingBalanceDiscarded ==
    [][ReadsContinuation(HasMarker) => current' = current /\ transactions' = transactions]_vars

\* The marker line has just been read after the start line of the open record.
C7_Witness ==
    /\ pc = "lines"
    /\ line_num >= 2
    /\ is_valid_transaction(lines[line_num - 1])
    /\ lines[line_num] = "Ending Balance $1,200.00"
    /\ current.Description = StartDescription(lines[line_num - 1])

(***************************************************************************)
(* C8: while a record is open, reading a continuation line that starts     *)
(* with six digits and "/" (the footer pattern, matched at the start of    *)
(* the line as read) appends nothing to the open record's description.     *)
(***************************************************************************)
C8_FooterDiscarded ==
    [][ReadsContinuation(FooterLine) => current' = current /\ transactions' = transactions]_vars

C8_Witness ==
    /\ pc = "lines"
    /\ line_num >= 2
    /\ is_valid_transaction(lines[line_num - 1])
    /\ lines[line_num] = "123456/02"
    /\ current.Description = StartDescription(lines[line_num - 1])

(***************************************************************************)
(* C6: a line is a transaction start exactly when its first token is a     *)
(* valid MM/DD/YYYY date, it has at least 5 tokens, and its third-to-last  *)
(* and second-to-last tokens parse as numbers once "$" and "," are         *)
(* removed; so it is none when the first token is no valid date, when the  *)
(* line is empty, and when it has fewer than 5 tokens (extract_amounts     *)
(* then returns None, None).                                               *)
(***************************************************************************)
AmountParses(tok) == float(replace(replace(tok, "$", ""), ",", "")) # None

C9_IdempotentOnOneKey ==
    /\ text_in = "A ccount Summary" /\ Len(result) >= 1 => result[1] = "Account Summary"
    /\ \A r \in 1..Len(BROKEN_WORD_FIXES) :
           text_in = BROKEN_WORD_FIXES[r][1] \o " Summary" /\ Len(result) = 2 =>
               /\ result[1] = BROKEN_WORD_FIXES[r][2] \o " Summary"
               /\ result[2] = result[1]

C9_Witness ==
    /\ text_in = "A ccount Summary"
    /\ result = <<"Account Summary", "Account Summary">>

\* C9 as stated: patch(patch(t)) = patch(t) for every text t.
C9_Original == Len(result) = 2 => result[2] = result[1]

(***************************************************************************)
(* C10: when no transactions are found in any document, the run completes  *)
(* without failing and leaves an empty output table.                       *)
(***************************************************************************)
C10_EmptyRunCompletes ==
    pc \in {"done", "crashed"} /\ all_dfs = <<>> => pc = "done" /\ csv = <<>>

(***************************************************************************)
(* C11: a document that fails contributes no frame, whatever it had        *)
(* assembled before failing, and every other document contributes one      *)
(* frame with all of its records: the frames collected are, in order,      *)
(* those of the documents finished so far that did not fail and have a     *)
(* start line, and the run reaches the export with every document tried.   *)
(***************************************************************************)
\* extract_text() raises on some page of the document.
Fails(doc) == \E i \in 1..Len(doc.pages) : doc.pages[i] = Raises

\* The start lines whose records the document contributes.
Contribution(doc) ==
    IF Fails(doc) THEN <<>> ELSE Walk(doc.pages, Len(doc.pages)).starts

\* The number of documents the loop is through with.
Finished == IF pc \in {"pages", "lines"} THEN doc_num - 1 ELSE doc_num

FrameOf(frame, doc) ==
    /\ Len(frame) = Len(Contribution(doc))
    /\ \A k \in 1..Len(frame) :
           /\ frame[k].Source_File = doc.name
           /\ MadeFrom(frame[k], Contribution(doc)[k].line)

C11_FailureIsolated ==
    LET givers == {i \in 1..Finished : Contribution(folder[i]) # <<>>}
    IN /\ Len(all_dfs) = Cardinality(givers)
       /\ \A j \in 1..Len(all_dfs) : FrameOf(all_dfs[j], folder[Kth(givers, j)])
       /\ pc \in {"main", "done", "crashed"} => doc_num = Len(folder)

\* The first document assembled a record on its first page and failed on a
\* later one; the second document's frame is the only one collected.
C11_Witness ==
    /\ pc = "main"
    /\ Len(folder) = 2
    /\ Fails(folder[1])
    /\ folder[1].pages[1] # Raises
    /\ Walk(folder[1].pages, 1).starts # <<>>
    /\ Len(all_dfs) = 1
    /\ all_dfs[1][1].Source_File = folder[2].name

(***************************************************************************)
(* C12: no record has an empty description, open, flushed or collected: a  *)
(* start line has at least one token between its date and its final three *)
(* tokens, and a continuation line only adds to the description.           *)
(***************************************************************************)
HasDescription(rec) == Len(rec.Description) > 0

C12_DescriptionNonEmpty ==
    /\ \A k \in 1..Len(transactions) : HasDescription(transactions[k])
    /\ \A j \in 1..Len(all_dfs) : \A k \in 1..Len(all_dfs[j]) : HasDescription(all_dfs[j][k])
    /\ Truthy(current) => HasDescription(current)
    /\ pc = "lines" /\ line_num > 0 /\ is_valid_transaction(lines[line_num]) =>
           /\ Len(split(lines[line_num])) - 4 >= 1
           /\ HasDescription(current)

\* A record opened by the line just read has been given its description, and
\* an earlier one has been flushed with its own.
C12_Witness ==
    /\ pc = "lines"
    /\ line_num > 0
    /\ is_valid_transaction(lines[line_num])
    /\ current.Description = "D D D"
    /\ Len(transactions) = 1
    /\ transactions[1].Description = "COFFEE SHOP"

(***************************************************************************)
(* C13: the Credit of every flushed record is a non-negative amount.       *)
(***************************************************************************)
\* x >= 0 for a parsed float (false for nan; -0.0 >= 0 is true).
NonNegative(x) == x.kind \in {"num", "inf"} /\ (~x.neg \/ (x.kind = "num" /\ x.n = 0))

C13_CreditNonNegative ==
    \A k \in 1..Len(transactions) : NonNegative(transactions[k].Credit)

(***************************************************************************)
(* C14: the output of a document only grows at its end and the frames      *)
(* collected only grow at theirs, so a flushed record is never changed;    *)
(* every page starts with no record open, and a line that is no start line *)
(* read while no record is open is discarded: it changes neither the       *)
(* output nor the open record.                                             *)
(***************************************************************************)
GrowsAtEnd(old, new) == Len(new) >= Len(old) /\ SubSeq(new, 1, Len(old)) = old

C14_FlushedIsFinal ==
    [][/\ doc_num' = doc_num => GrowsAtEnd(transactions, transactions')
       /\ GrowsAtEnd(all_dfs, all_dfs')
       /\ pc' = "lines" /\ line_num' = 0 => current' = None
       /\ (pc = "lines" /\ line_num < Len(lines) /\ ~Truthy(current)
              /\ ~is_valid_transaction(Line))
            => current' = None /\ transactions' = transactions]_vars

\* On the second page of a document, with a record flushed on the first, a
\* line that would be appended to an open record has been read and discarded.
C14_Witness ==
    /\ pc = "lines"
    /\ page_num = 2
    /\ line_num = 1
    /\ Appended(lines[1])
    /\ current = None
    /\ Len(transactions) >= 1
    /\ transactions[Len(transactions)].Description = PageFacts[Doc.pages[1]].final[Seen[Len(Seen)].at]

(***************************************************************************)
(* C15: normalize collapses every run of whitespace to one space and trims *)
(* both ends, and every description, open, flushed or collected, is in     *)
(* normal form at every step: no whitespace at either end, no two adjacent *)
(* whitespace characters, and normalize leaves it as it is.                *)
(***************************************************************************)
NormalForm(d) ==
    /\ Len(d) > 0 => ~IsSpace(Char(d, 1)) /\ ~IsSpace(Char(d, Len(d)))
    /\ \A i \in 1..(Len(d) - 1) : ~(IsSpace(Char(d, i)) /\ IsSpace(Char(d, i + 1)))

\* The characters of t that are no whitespace, in order.
Ink(t) == join("", split(t))

Normalized(rec) ==
    /\ NormalForm(rec.Description)
    /\ clean_description(rec.Description) = rec.Description

\* What normalize makes of a text: the tokens of the text, one space apart.
NormalizeOf(t, c) ==
    /\ NormalForm(c)
    /\ c = join(" ", split(t))
    /\ Ink(c) = Ink(t)
    /\ clean_description(c) = c

NormalizeExample == clean_description("  multiple   spaces  ") = "multiple spaces"

C15_DescriptionsNormal ==
    /\ NormalizeExample
    /\ pc = "lines" /\ line_num > 0 =>
           NormalizeOf(lines[line_num], clean_description(lines[line_num]))
    /\ \A k \in 1..Len(transactions) : Normalized(transactions[k])
    /\ \A j \in 1..Len(all_dfs) : \A k \in 1..Len(all_dfs[j]) : Normalized(all_dfs[j][k])
    /\ Truthy(current) => Normalized(current)

\* A line holding a run of blanks and a tab has just been appended to the open
\* record, and the description holds single spaces only.
C15_Witness ==
    /\ pc = "lines"
    /\ line_num >= 2
    /\ lines[line_num] = FourTokens
    /\ is_valid_transaction(lines[line_num - 1])
    /\ clean_description(FourTokens) # FourTokens
    /\ current.Description =
           StartDescription(lines[line_num - 1]) \o " " \o clean_description(FourTokens)

(***************************************************************************)
(* C16: while a record is open, a continuation line that neither exclusion *)
(* matches is appended to the description if and only if it has more than  *)
(* one non-space character; otherwise the record is left as it is. Either  *)
(* way the output is not touched.                                          *)
(***************************************************************************)
C16_AppendedIffTwoChars ==
    [][(pc = "lines" /\ line_num < Len(lines) /\ Truthy(current) /\ NotExcluded(Line))
         => /\ transactions' = transactions
            /\ IF NonSpaceCount(Line) > 1
               THEN /\ current'.Description =
                           clean_description(current.Description \o " " \o Line)
                    /\ current'.Description # current.Description
               ELSE current' = current]_vars

\* A line of a single character was read after a start line and a blank line:
\* the record still has the description its start line gave it.
C16_Witness ==
    /\ pc = "lines"
    /\ line_num = 3
    /\ is_valid_transaction(lines[1])
    /\ NonSpaceCount(lines[2]) = 0
    /\ NonSpaceCount(lines[3]) = 1
    /\ NotExcluded(lines[3])
    /\ Truthy(current)
    /\ current.Description = StartDescription(lines[1])

(***************************************************************************)
(* C17 (as amended): the scan looks at the first 15 lines only. It returns *)
(* the first whitespace-delimited token that follows the label AND COMES   *)
(* BEFORE ANY FURTHER OCCURRENCE OF THE LABEL, taken from the first of     *)
(* those lines that has such a token, and absent when no such line is      *)
(* among the first 15 (in particular when none of them holds the label);   *)
(* the tracked number becomes the token returned and is left alone when    *)
(* absent is returned, so a label line at position 16 or later never       *)
(* changes it.                                                             *)
(***************************************************************************)
\* Where the label occurs in a line.
LabelAt(line) ==
    {i \in 1..(Len(line) - Len(AccountLabel) + 1) :
        SubSeq(line, i, i + Len(AccountLabel) - 1) = AccountLabel}

\* The text of a line after its first label.
AfterLabel(line) == SubSeq(line, Kth(LabelAt(line), 1) + Len(AccountLabel), Len(line))

\* The text between the first label of a line and the next one, or the end
\* of the line.
UpToNextLabel(line) ==
    IF LabelAt(AfterLabel(line)) = {} THEN AfterLabel(line)
    ELSE SubSeq(AfterLabel(line), 1, Kth(LabelAt(AfterLabel(line)), 1) - 1)

\* The lines among the first 15 that have the label and a token in Part of them.
Givers(ls, Part(_)) ==
    {i \in 1..Len(ls) : i <= 15 /\ LabelAt(ls[i]) # {} /\ split(Part(ls[i])) # <<>>}

\* The token the scan is to return, NoneStr for absent.
Found(ls, Part(_)) ==
    IF Givers(ls, Part) = {} THEN NoneStr
    ELSE split(Part(ls[Kth(Givers(ls, Part), 1)]))[1]

ScanReturns(Part(_)) ==
    pc = "scan" =>
        /\ result' = Found(lines, Part)
        /\ current_account_number' =
               IF Found(lines, Part) = NoneStr THEN current_account_number
               ELSE Found(lines, Part)
        /\ (\A i \in 1..Len(lines) : i <= 15 => LabelAt(lines[i]) = {}) =>
               result' = NoneStr /\ current_account_number' = current_account_number

C17_ScansFirstFifteen == [][ScanReturns(UpToNextLabel)]_vars

\* A page of 16 lines whose only label line is the last one was scanned:
\* absent was returned and the tracked number is the one it was.
C17_Witness ==
    /\ pc = "scanned"
    /\ Len(lines) = 16
    /\ lines[16] = "Account Number: 5678 Savings"
    /\ \A i \in 1..15 : LabelAt(lines[i]) = {}
    /\ result = NoneStr
    /\ current_account_number = "1234"

\* C17 as stated: the first token following the label on the line.
C17_Original == [][ScanReturns(AfterLabel)]_vars

(***************************************************************************)
(* C18: a page whose text is absent or empty is skipped: the step over it  *)
(* changes neither the output, nor the tracked account number, nor the     *)
(* frames collected, and between pages the output and the tracked number   *)
(* are those of the document with its textless pages taken out.            *)
(***************************************************************************)
HasText(p) == ~NoText(p)

\* The pages read so far that have text.
Kept == SelectSeq(SubSeq(Doc.pages, 1, page_num), HasText)

SameAsWithout(w) ==
    /\ current_account_number = w.acct
    /\ Len(transactions) = Len(w.starts)
    /\ \A k \in 1..Len(transactions) :
           /\ MadeFrom(transactions[k], w.starts[k].line)
           /\ transactions[k].Description = w.starts[k].final
           /\ transactions[k].Account_Number = w.starts[k].acct

SkipStep ==
    (pc = "pages" /\ page_num < Len(Doc.pages) /\ NoText(Doc.pages[page_num + 1]))
      => /\ page_num' = page_num + 1
         /\ UNCHANGED <<transactions, current_account_number, all_dfs, current, pc, doc_num>>

C18_TextlessPageSkipped ==
    /\ [](pc = "pages" => SameAsWithout(Walk(Kept, Len(Kept))))
    /\ [][SkipStep]_vars

\* A textless page has been skipped after a page that gave a record and an
\* account number.
C18_Witness ==
    /\ pc = "pages"
    /\ page_num >= 2
    /\ NoText(Doc.pages[page_num])
    /\ Len(Kept) = page_num - 1
    /\ Len(transactions) >= 1
    /\ current_account_number # Unknown
    /\ Truthy(current)

(***************************************************************************)
(* C19: a record gets its Date, Credit, Debit, Account_Number and          *)
(* Source_File from its start line, the tracked number and the document;   *)
(* a continuation line changes at most its Description; and the flush      *)
(* puts the record in the output as it then is.                            *)
(***************************************************************************)
SameButDescription(r1, r2) ==
    /\ r1.Date = r2.Date
    /\ r1.Credit = r2.Credit
    /\ r1.Debit = r2.Debit
    /\ r1.Account_Number = r2.Account_Number
    /\ r1.Source_File = r2.Source_File

CreatedFrom(rec, line) ==
    /\ MadeFrom(rec, line)
    /\ rec.Account_Number = current_account_number
    /\ rec.Source_File = Doc.name

ReadsLine == pc = "lines" /\ line_num < Len(lines)

C19_OnlyDescriptionChanges ==
    [][/\ ReadsLine /\ is_valid_transaction(Line) => CreatedFrom(current', Line)
       /\ ReadsLine /\ ~is_valid_transaction(Line) /\ Truthy(current) =>
              Truthy(current') /\ SameButDescription(current, current')
       /\ doc_num' = doc_num /\ Len(transactions') = Len(transactions) + 1 =>
              transactions'[Len(transactions')] = current]_vars

\* A continuation line has changed the description of the open record, whose
\* other fields are those its start line gave it.
C19_Witness ==
    /\ pc = "lines"
    /\ line_num = 2
    /\ is_valid_transaction(lines[1])
    /\ Truthy(current)
    /\ current.Description # StartDescription(lines[1])
    /\ CreatedFrom(current, lines[1])
    /\ current.Credit # None

(***************************************************************************)
(* C20: for every pair of adjacent words of every description, the count   *)
(* of the phrase and the hit count of the pattern go up by one for every   *)
(* pattern the pair matches: a phrase's count is the number of (pair,      *)
(* pattern) matches of the pairs that spell it, a pattern's hit count is   *)
(* the number of pairs that match it, so the phrase counts and the hit     *)
(* counts have the same sum; and the descriptions are left as they were.   *)
(***************************************************************************)
\* The pairs of adjacent words: <<d, i>> is words i, i + 1 of description d.
PairsOf(descs) ==
    UNION {{<<d, i>> : i \in 1..(Len(split(descs[d])) - 1)} : d \in 1..Len(descs)}

PhraseOf(descs, o) == split(descs[o[1]])[o[2]] \o " " \o split(descs[o[1]])[o[2] + 1]

PatternsOf(descs, o) ==
    {r \in 1..Len(RULES) :
        RuleMatches(r, split(descs[o[1]])[o[2]], split(descs[o[1]])[o[2] + 1])}

\* The number of (pair, pattern) matches among the pairs S.
RECURSIVE MatchesIn(_, _)
MatchesIn(descs, S) ==
    IF S = {} THEN 0
    ELSE LET o == CHOOSE x \in S : TRUE
         IN Cardinality(PatternsOf(descs, o)) + MatchesIn(descs, S \ {o})

\* The sum of the counts of a Counter.
RECURSIVE SumOf(_)
SumOf(counter) ==
    IF DOMAIN counter = {} THEN 0
    ELSE LET k == CHOOSE x \in DOMAIN counter : TRUE
         IN counter[k] + SumOf([x \in DOMAIN counter \ {k} |-> counter[x]])

CountsAre(descs, bp, rh) ==
    /\ DOMAIN bp = {PhraseOf(descs, o) : o \in {x \in PairsOf(descs) : PatternsOf(descs, x) # {}}}
    /\ \A p \in DOMAIN bp :
           bp[p] = MatchesIn(descs, {o \in PairsOf(descs) : PhraseOf(descs, o) = p})
    /\ DOMAIN rh = {RULES[r] : r \in UNION {PatternsOf(descs, o) : o \in PairsOf(descs)}}
    /\ \A r \in 1..Len(RULES) : RULES[r] \in DOMAIN rh =>
           rh[RULES[r]] = Cardinality({o \in PairsOf(descs) : r \in PatternsOf(descs, o)})
    /\ SumOf(bp) = SumOf(rh)
    /\ SumOf(bp) = MatchesIn(descs, PairsOf(descs))

C20_CountsAgree ==
    /\ [](pc = "found" => CountsAre(text_in, result.broken_phrases, result.rules_hit))
    /\ [][text_in' = text_in]_vars

\* Two descriptions spell the phrase "U S" once each, followed by words that
\* make two other phrases: "U S" is counted twice under one pattern, and the
\* three patterns hit share the four counts.
C20_Witness ==
    /\ pc = "found"
    /\ Len(text_in) = 2
    /\ "U S" \in DOMAIN result.broken_phrases
    /\ result.broken_phrases["U S"] = 2
    /\ result.rules_hit["abbreviation spacing"] = 2
    /\ Cardinality(DOMAIN result.rules_hit) = 3
    /\ SumOf(result.broken_phrases) = 4

====
